---- MODULE Spec2Model ----
(***************************************************************************)
(* Model of margin_strategy_template/strategy_template.py: the Strategy    *)
(* class (a StrategyBase plugin) driven by the margin host.  The plugin's  *)
(* fields are the first three variables; the remaining variables record    *)
(* what the host observes of the latest call (printed lines, host services *)
(* invoked, returned value or raised exception) and a few history          *)
(* observers over the sequence of calls.                                   *)
(*                                                                         *)
(* Python values are boxed so that None and an int compare unequal instead *)
(* of being incomparable: PyInt(i), None.  Amounts are counted in units of *)
(* 0.002 and prices in units of 0.0001, so that start()'s amount and price *)
(* are both 1.  Dictionary keys, values and error texts are numbered.      *)
(***************************************************************************)
EXTENDS Integers, Sequences, FiniteSets, TLC

VARIABLES waiting_order_id, waiting_cancel_order_id, strategy_state,
          output, hostCalls, lastCall, lastRet,
          pre, pending, lifecycle, rt, cyc, last_restore

vars == <<waiting_order_id, waiting_cancel_order_id, strategy_state,
          output, hostCalls, lastCall, lastRet,
          pre, pending, lifecycle, rt, cyc, last_restore>>

----------------------------------------------------------------------------
(* Bounds of the model                                                     *)

MaxOrderId == 2
MaxAmount == 1
NumKeys == 1
NumVals == 2
NumErrors == 2

(* Program constants of start()                                            *)
amount == 1
price == 1
buy == TRUE

----------------------------------------------------------------------------
(* Python values                                                           *)

None == [type |-> "NoneType"]
PyInt(i) == [type |-> "int", value |-> i]
PyDict(m) == [type |-> "dict", value |-> m]
PyStr(i) == [type |-> "str", value |-> i]
Raised(e) == [type |-> "raise", exc |-> e]

OrderIds == {PyInt(i) : i \in 0..MaxOrderId}
Amounts == 0..MaxAmount
Keys == 1..NumKeys
Vals == 1..NumVals
Errors == {PyStr(i) : i \in 1..NumErrors}
Mappings == UNION {[D -> Vals] : D \in SUBSET Keys}
EmptyDict == CHOOSE m \in Mappings : DOMAIN m = {}
FundsUpdates == {"funds"}

(* StrategyConfig flags and OrderUpdate statuses named by the template     *)
ORDER_BOOK == "ORDER_BOOK"
TICKER == "TICKER"
PUBLIC_TRADE_HISTORY == "PUBLIC_TRADE_HISTORY"
FUNDS == "FUNDS"
OrderUpdateStatus == {"FILLED", "ADAPTED", "CANCELED", "NO_CHANGE",
                      "REAPPEARED", "DISAPPEARED", "PARTIALLY_FILLED",
                      "ADAPTED_AND_FILLED", "OTHER_CHANGE"}

(* Results the host's TradingCapabilityManager may give to start()         *)
TcmResults == [round_amount : Amounts, get_min_buy_amount : Amounts,
               get_max_buy_amount : Amounts, is_order_valid : BOOLEAN]

----------------------------------------------------------------------------
(* The plugin instance                                                     *)

Self == [waiting_order_id |-> waiting_order_id,
         waiting_cancel_order_id |-> waiting_cancel_order_id,
         strategy_state |-> strategy_state]

(* The effect of one call: the instance afterwards, what was returned or   *)
(* raised, the lines printed (each the tuple of print's arguments), and    *)
(* the host services invoked, in order.                                    *)
Effect(self, ret, out, calls) ==
    [self |-> self, ret |-> ret, out |-> out, calls |-> calls]

(* A call of the host's exit with the given positional arguments           *)
exit(args) == [op |-> "exit", args |-> args]

(* Variant: the cancel id starts as 0, as the placement id does            *)
Strategy__init__zero_cancel_id ==
    [waiting_order_id |-> PyInt(0),
     waiting_cancel_order_id |-> PyInt(0),
     strategy_state |-> EmptyDict]

Strategy__init__ ==
    [waiting_order_id |-> PyInt(0),
     waiting_cancel_order_id |-> None,
     strategy_state |-> EmptyDict]

init(self) ==
    Effect(self, None, <<<<"Strategy init function!">>>>, <<>>)

(* Variant: the FUNDS subscription is dropped once a state was restored   *)
get_strategy_config_stateful(self) ==
    Effect(self,
           [type |-> "StrategyConfig",
            required_data_updates |->
                IF self.strategy_state = EmptyDict
                THEN {ORDER_BOOK, TICKER, PUBLIC_TRADE_HISTORY, FUNDS}
                ELSE {ORDER_BOOK, TICKER, PUBLIC_TRADE_HISTORY}],
           <<>>, <<>>)

get_strategy_config(self) ==
    Effect(self,
           [type |-> "StrategyConfig",
            required_data_updates |->
                {ORDER_BOOK, TICKER, PUBLIC_TRADE_HISTORY, FUNDS}],
           <<>>, <<>>)

save_strategy_state(self) ==
    Effect(self, PyDict(self.strategy_state), <<>>, <<>>)

(* Variant: the argument is dropped                                        *)
restore_strategy_state_ignore(self, new_state) ==
    Effect(self, None, <<>>, <<>>)

(* Variant: the argument is merged into the state (dict.update)            *)
restore_strategy_state_update(self, new_state) ==
    Effect([self EXCEPT !.strategy_state =
                [k \in DOMAIN self.strategy_state \cup DOMAIN new_state |->
                    IF k \in DOMAIN new_state
                    THEN new_state[k] ELSE self.strategy_state[k]]],
           None, <<>>, <<>>)

restore_strategy_state(self, new_state) ==
    Effect([self EXCEPT !.strategy_state = new_state], None, <<>>, <<>>)

(* Host services start() invokes on the TradingCapabilityManager           *)
tcmCall(name, args, result) == [op |-> name, args |-> args, result |-> result]

(* Variant: the order is placed (line 106 active); the host hands out     *)
(* placement id MaxOrderId                                                 *)
start_placing(self, tcm) ==
    LET out == <<<<"Strategy start function!">>, <<"placing order">>>>
        rounded == tcm.round_amount
        c0 == [op |-> "get_trading_capability_manager"]
        c1 == tcmCall("round_amount", <<amount, "ROUND">>, rounded)
        c2 == tcmCall("get_min_buy_amount", <<price>>, tcm.get_min_buy_amount)
        c3 == tcmCall("get_max_buy_amount", <<price>>, tcm.get_max_buy_amount)
        c4 == tcmCall("is_order_valid", <<buy, rounded, price>>,
                      tcm.is_order_valid)
        c5 == tcmCall("place_limit_order", <<buy, rounded, price>>,
                      PyInt(MaxOrderId))
    IN  IF ~(tcm.get_min_buy_amount <= rounded)
        THEN Effect(self, Raised("AssertionError"), out, <<c0, c1, c2>>)
        ELSE IF ~(tcm.get_max_buy_amount >= rounded)
        THEN Effect(self, Raised("AssertionError"), out, <<c0, c1, c2, c3>>)
        ELSE IF ~tcm.is_order_valid
        THEN Effect(self, Raised("AssertionError"), out,
                    <<c0, c1, c2, c3, c4>>)
        ELSE Effect([self EXCEPT !.waiting_order_id = PyInt(MaxOrderId)],
                    None, out, <<c0, c1, c2, c3, c4, c5>>)

(* Variant: the maximum amount is not asserted                             *)
start_no_max_check(self, tcm) ==
    LET out == <<<<"Strategy start function!">>, <<"placing order">>>>
        rounded == tcm.round_amount
        c0 == [op |-> "get_trading_capability_manager"]
        c1 == tcmCall("round_amount", <<amount, "ROUND">>, rounded)
        c2 == tcmCall("get_min_buy_amount", <<price>>, tcm.get_min_buy_amount)
        c4 == tcmCall("is_order_valid", <<buy, rounded, price>>,
                      tcm.is_order_valid)
    IN  IF ~(tcm.get_min_buy_amount <= rounded)
        THEN Effect(self, Raised("AssertionError"), out, <<c0, c1, c2>>)
        ELSE IF ~tcm.is_order_valid
        THEN Effect(self, Raised("AssertionError"), out, <<c0, c1, c2, c4>>)
        ELSE Effect(self, None, out, <<c0, c1, c2, c4>>)

start(self, tcm) ==
    LET out == <<<<"Strategy start function!">>, <<"placing order">>>>
        rounded == tcm.round_amount
        c0 == [op |-> "get_trading_capability_manager"]
        c1 == tcmCall("round_amount", <<amount, "ROUND">>, rounded)
        c2 == tcmCall("get_min_buy_amount", <<price>>, tcm.get_min_buy_amount)
        c3 == tcmCall("get_max_buy_amount", <<price>>, tcm.get_max_buy_amount)
        c4 == tcmCall("is_order_valid", <<buy, rounded, price>>,
                      tcm.is_order_valid)
    IN  IF ~(tcm.get_min_buy_amount <= rounded)
        THEN Effect(self, Raised("AssertionError"), out, <<c0, c1, c2>>)
        ELSE IF ~(tcm.get_max_buy_amount >= rounded)
        THEN Effect(self, Raised("AssertionError"), out, <<c0, c1, c2, c3>>)
        ELSE IF ~tcm.is_order_valid
        THEN Effect(self, Raised("AssertionError"), out,
                    <<c0, c1, c2, c3, c4>>)
        ELSE Effect(self, None, out, <<c0, c1, c2, c3, c4>>)

stop(self) ==
    Effect(self, None, <<<<"Strategy stop function!">>>>, <<>>)

suspend(self) ==
    Effect(self, None, <<<<"Strategy suspend called">>>>, <<>>)

unsuspend(self) ==
    Effect(self, None, <<<<"Strategy unsuspend called">>>>, <<>>)

on_new_order_book(self) ==
    Effect(self, None, <<>>, <<>>)

on_new_ticker(self) ==
    Effect(self, None, <<>>, <<>>)

on_new_public_trades(self) ==
    Effect(self, None, <<>>, <<>>)

on_new_funds(self, funds) ==
    Effect(self, None, <<<<"Strategy funds function!", funds>>>>, <<>>)

on_order_update(self, status) ==
    Effect(self, None, <<<<"Order update status was: ", status>>>>, <<>>)

(* Variant: every placement success is taken for the awaited one          *)
on_place_order_success_any(self, place_order_id) ==
    Effect(self, None,
           <<<<"Strategy place order success">>, <<"Had waiting order id">>>>,
           <<>>)

on_place_order_success(self, place_order_id) ==
    IF self.waiting_order_id = place_order_id
    THEN Effect(self, None,
                <<<<"Strategy place order success">>,
                  <<"Had waiting order id">>>>,
                <<>>)
    ELSE Effect(self, None,
                <<<<"Strategy place order success">>,
                  <<"Did not have waiting order id">>>>,
                <<>>)

on_place_order_error_string(self, place_order_id, error) ==
    Effect(self, None, <<>>, <<exit(<<"ERROR", error>>)>>)

(* Variant: exit is called outside the if                                  *)
on_cancel_order_success_dedent(self, order_id) ==
    IF self.waiting_cancel_order_id = order_id
    THEN Effect(self, None,
                <<<<"Strategy cancel order success">>,
                  <<"Had waiting cancel id">>>>,
                <<exit(<<"FINISHED_SUCCESSFULLY">>)>>)
    ELSE Effect(self, None, <<<<"Strategy cancel order success">>>>,
                <<exit(<<"FINISHED_SUCCESSFULLY">>)>>)

on_cancel_order_success(self, order_id) ==
    IF self.waiting_cancel_order_id = order_id
    THEN Effect(self, None,
                <<<<"Strategy cancel order success">>,
                  <<"Had waiting cancel id">>>>,
                <<exit(<<"FINISHED_SUCCESSFULLY">>)>>)
    ELSE Effect(self, None, <<<<"Strategy cancel order success">>>>, <<>>)

(* Variant: only an error for the awaited cancel id ends the strategy     *)
on_cancel_order_error_string_awaited(self, order_id, error) ==
    IF self.waiting_cancel_order_id = order_id
    THEN Effect(self, None, <<>>, <<exit(<<"ERROR", error>>)>>)
    ELSE Effect(self, None, <<>>, <<>>)

on_cancel_order_error_string(self, order_id, error) ==
    Effect(self, None, <<>>, <<exit(<<"ERROR", error>>)>>)

----------------------------------------------------------------------------
(* The host: it constructs the instance, invokes one callback at a time    *)
(* and waits for it to return.                                             *)

(* Observer of save(); restore(result); save() (stages 1, 2, 3) and of     *)
(* restore(m); save() (stages 4, 5): result is the mapping that the last   *)
(* save() of the sequence has to return.                                   *)
RtIdle == [stage |-> 0, result |-> EmptyDict]

RtNext(call, eff) ==
    IF call.op = "save_strategy_state"
    THEN IF rt.stage = 2 THEN [rt EXCEPT !.stage = 3]
         ELSE IF rt.stage = 4 THEN [rt EXCEPT !.stage = 5]
         ELSE [stage |-> 1, result |-> eff.ret.value]
    ELSE IF call.op = "restore_strategy_state"
    THEN IF rt.stage = 1 /\ call.strategy_state = rt.result
         THEN [rt EXCEPT !.stage = 2]
         ELSE [stage |-> 4, result |-> call.strategy_state]
    ELSE RtIdle

(* Observer of the most recent restore_strategy_state of this instance     *)
NeverRestored == [called |-> FALSE, arg |-> EmptyDict]

LastRestoreNext(call) ==
    IF call.op = "__init__" THEN NeverRestored
    ELSE IF call.op = "restore_strategy_state"
    THEN [called |-> TRUE, arg |-> call.strategy_state]
    ELSE last_restore

(* The lifecycle the host keeps for the strategy, as the template's        *)
(* docstrings describe it: init is the first call after creation, start    *)
(* makes the strategy run, suspend and unsuspend alternate, stop is final, *)
(* and a strategy that was running or suspended when the host closed is    *)
(* restored to the suspended state.  A start that raises does not make the *)
(* strategy run.  Calls outside this order leave the lifecycle as it is.   *)
LifecycleNext(call, eff) ==
    IF call.op = "__init__"
    THEN IF lifecycle \in {"Running", "Suspended"}
         THEN "Suspended" ELSE "Uninitialized"
    ELSE IF call.op = "init" /\ lifecycle = "Uninitialized"
    THEN "Initialized"
    ELSE IF call.op = "start" /\ lifecycle = "Initialized" /\ eff.ret = None
    THEN "Running"
    ELSE IF call.op = "suspend" /\ lifecycle = "Running"
    THEN "Suspended"
    ELSE IF call.op = "unsuspend" /\ lifecycle = "Suspended"
    THEN "Running"
    ELSE IF call.op = "stop" /\ lifecycle \in {"Running", "Suspended"}
    THEN "Stopped"
    ELSE lifecycle

(* Observer of suspend() in the Running state; s = save(); restart;        *)
(* restore(s); unsuspend(): before is the instance just before suspend().  *)
CycIdle == [stage |-> 0, before |-> Strategy__init__, saved |-> EmptyDict]

CycNext(call, eff) ==
    IF call.op = "suspend" /\ lifecycle = "Running"
    THEN [stage |-> 1, before |-> Self, saved |-> EmptyDict]
    ELSE IF call.op = "save_strategy_state" /\ cyc.stage = 1
    THEN [cyc EXCEPT !.stage = 2, !.saved = eff.ret.value]
    ELSE IF call.op = "__init__" /\ cyc.stage = 2
    THEN [cyc EXCEPT !.stage = 3]
    ELSE IF call.op = "restore_strategy_state" /\ cyc.stage = 3
            /\ call.strategy_state = cyc.saved
    THEN [cyc EXCEPT !.stage = 4]
    ELSE IF call.op = "unsuspend" /\ cyc.stage = 4
    THEN [cyc EXCEPT !.stage = 5]
    ELSE CycIdle

(* Placement ids handed out by place_limit_order in a call                 *)
Placed(calls) ==
    {calls[i].result : i \in {j \in DOMAIN calls :
                                  calls[j].op = "place_limit_order"}}

(* Placement ids a call resolves                                           *)
Resolved(call) ==
    IF call.op \in {"on_place_order_success", "on_place_order_error_string"}
    THEN {call.place_order_id}
    ELSE {}

Deliver(call, eff) ==
    /\ waiting_order_id' = eff.self.waiting_order_id
    /\ waiting_cancel_order_id' = eff.self.waiting_cancel_order_id
    /\ strategy_state' = eff.self.strategy_state
    /\ output' = eff.out
    /\ hostCalls' = eff.calls
    /\ lastCall' = call
    /\ lastRet' = eff.ret
    /\ pre' = Self
    /\ pending' = IF call.op = "__init__"
                  THEN {}
                  ELSE (pending \ Resolved(call)) \cup Placed(eff.calls)
    /\ lifecycle' = LifecycleNext(call, eff)
    /\ rt' = RtNext(call, eff)
    /\ cyc' = CycNext(call, eff)
    /\ last_restore' = LastRestoreNext(call)

Init ==
    /\ waiting_order_id = Strategy__init__.waiting_order_id
    /\ waiting_cancel_order_id = Strategy__init__.waiting_cancel_order_id
    /\ strategy_state = Strategy__init__.strategy_state
    /\ output = <<>>
    /\ hostCalls = <<>>
    /\ lastCall = [op |-> "__init__"]
    /\ lastRet = None
    /\ pre = Strategy__init__
    /\ pending = {}
    /\ lifecycle = "Uninitialized"
    /\ rt = RtIdle
    /\ cyc = CycIdle
    /\ last_restore = NeverRestored

(* The host process restarts and constructs a fresh instance               *)
Restart ==
    Deliver([op |-> "__init__"], Effect(Strategy__init__, None, <<>>, <<>>))

Call_init ==
    Deliver([op |-> "init"], init(Self))

Call_get_strategy_config ==
    Deliver([op |-> "get_strategy_config"], get_strategy_config(Self))

Call_save_strategy_state ==
    Deliver([op |-> "save_strategy_state"], save_strategy_state(Self))

Call_restore_strategy_state ==
    \E m \in Mappings :
        Deliver([op |-> "restore_strategy_state", strategy_state |-> m],
                restore_strategy_state(Self, m))

Call_start ==
    \E tcm \in TcmResults :
        Deliver([op |-> "start", tcm |-> tcm], start(Self, tcm))

Call_stop ==
    Deliver([op |-> "stop"], stop(Self))

Call_suspend ==
    Deliver([op |-> "suspend"], suspend(Self))

Call_unsuspend ==
    Deliver([op |-> "unsuspend"], unsuspend(Self))

Call_on_new_order_book ==
    Deliver([op |-> "on_new_order_book"], on_new_order_book(Self))

Call_on_new_ticker ==
    Deliver([op |-> "on_new_ticker"], on_new_ticker(Self))

Call_on_new_public_trades ==
    Deliver([op |-> "on_new_public_trades"], on_new_public_trades(Self))

Call_on_new_funds ==
    \E funds \in FundsUpdates :
        Deliver([op |-> "on_new_funds", funds |-> funds],
                on_new_funds(Self, funds))

Call_on_order_update ==
    \E status \in OrderUpdateStatus :
        Deliver([op |-> "on_order_update", status |-> status],
                on_order_update(Self, status))

Call_on_place_order_success(ids) ==
    \E id \in ids :
        Deliver([op |-> "on_place_order_success", place_order_id |-> id],
                on_place_order_success(Self, id))

Call_on_place_order_error_string(ids) ==
    \E id \in ids, error \in Errors :
        Deliver([op |-> "on_place_order_error_string",
                 place_order_id |-> id, error |-> error],
                on_place_order_error_string(Self, id, error))

Call_on_cancel_order_success(ids) ==
    \E id \in ids :
        Deliver([op |-> "on_cancel_order_success", order_id |-> id],
                on_cancel_order_success(Self, id))

Call_on_cancel_order_error_string(ids) ==
    \E id \in ids, error \in Errors :
        Deliver([op |-> "on_cancel_order_error_string",
                 order_id |-> id, error |-> error],
                on_cancel_order_error_string(Self, id, error))

Next ==
    \/ Restart
    \/ Call_init
    \/ Call_get_strategy_config
    \/ Call_save_strategy_state
    \/ Call_restore_strategy_state
    \/ Call_start
    \/ Call_stop
    \/ Call_suspend
    \/ Call_unsuspend
    \/ Call_on_new_order_book
    \/ Call_on_new_ticker
    \/ Call_on_new_public_trades
    \/ Call_on_new_funds
    \/ Call_on_order_update
    \/ Call_on_place_order_success(OrderIds)
    \/ Call_on_place_order_error_string(OrderIds)
    \/ Call_on_cancel_order_success(OrderIds)
    \/ Call_on_cancel_order_error_string(OrderIds)

Spec == Init /\ [][Next]_vars

(* The same host when the int annotation of the id parameters is not       *)
(* enforced: an id argument may also be None.                              *)
UntypedCall ==
    \/ Call_on_place_order_success({None})
    \/ Call_on_place_order_error_string({None})
    \/ Call_on_cancel_order_success({None})
    \/ Call_on_cancel_order_error_string({None})

NextUntyped == Next \/ UntypedCall

SpecUntyped == Init /\ [][NextUntyped]_vars

----------------------------------------------------------------------------
(* Properties                                                              *)

Range(seq) == {seq[i] : i \in DOMAIN seq}

ExitCalls == {c \in Range(hostCalls) : c.op = "exit"}

(* The response of an instance to a call: the dispatch of the host's call  *)
(* to the method of that name.                                             *)
Respond(self, call) ==
    CASE call.op = "init" -> init(self)
      [] call.op = "get_strategy_config" -> get_strategy_config(self)
      [] call.op = "save_strategy_state" -> save_strategy_state(self)
      [] call.op = "restore_strategy_state" ->
            restore_strategy_state(self, call.strategy_state)
      [] call.op = "start" -> start(self, call.tcm)
      [] call.op = "stop" -> stop(self)
      [] call.op = "suspend" -> suspend(self)
      [] call.op = "unsuspend" -> unsuspend(self)
      [] call.op = "on_new_order_book" -> on_new_order_book(self)
      [] call.op = "on_new_ticker" -> on_new_ticker(self)
      [] call.op = "on_new_public_trades" -> on_new_public_trades(self)
      [] call.op = "on_new_funds" -> on_new_funds(self, call.funds)
      [] call.op = "on_order_update" -> on_order_update(self, call.status)
      [] call.op = "on_place_order_success" ->
            on_place_order_success(self, call.place_order_id)
      [] call.op = "on_place_order_error_string" ->
            on_place_order_error_string(self, call.place_order_id, call.error)
      [] call.op = "on_cancel_order_success" ->
            on_cancel_order_success(self, call.order_id)
      [] call.op = "on_cancel_order_error_string" ->
            on_cancel_order_error_string(self, call.order_id, call.error)

(* The calls the host may make next                                        *)
Callbacks ==
    {[op |-> o] : o \in {"init", "get_strategy_config", "save_strategy_state",
                         "stop", "suspend", "unsuspend", "on_new_order_book",
                         "on_new_ticker", "on_new_public_trades"}}
    \cup {[op |-> "restore_strategy_state", strategy_state |-> m] :
            m \in Mappings}
    \cup {[op |-> "start", tcm |-> t] : t \in TcmResults}
    \cup {[op |-> "on_new_funds", funds |-> f] : f \in FundsUpdates}
    \cup {[op |-> "on_order_update", status |-> st] : st \in OrderUpdateStatus}
    \cup {[op |-> "on_place_order_success", place_order_id |-> id] :
            id \in OrderIds}
    \cup {[op |-> "on_place_order_error_string", place_order_id |-> id,
           error |-> e] : id \in OrderIds, e \in Errors}
    \cup {[op |-> "on_cancel_order_success", order_id |-> id] :
            id \in OrderIds}
    \cup {[op |-> "on_cancel_order_error_string", order_id |-> id,
           error |-> e] : id \in OrderIds, e \in Errors}

(* C1: save(); restore(result); save() returns result again, and           *)
(* restore(m); save() returns m, for every mapping m.                      *)
C1_RoundTrip ==
    rt.stage \in {3, 5} => lastRet = PyDict(rt.result)

C1_Witness ==
    /\ rt.stage = 3
    /\ DOMAIN rt.result = Keys
    /\ lastCall.op = "save_strategy_state"

(* C2: the saved state is exactly the argument of the most recent          *)
(* restore_strategy_state of this instance, or the empty mapping if there  *)
(* was none; save_strategy_state returns it.                               *)
C2_Expected == IF last_restore.called THEN last_restore.arg ELSE EmptyDict

C2_StateIsLastRestore ==
    /\ strategy_state = C2_Expected
    /\ lastCall.op = "save_strategy_state" => lastRet = PyDict(C2_Expected)

C2_Witness ==
    /\ lastCall.op = "save_strategy_state"
    /\ last_restore.called
    /\ last_restore.arg # EmptyDict
    /\ lifecycle = "Running"

(* C3: get_strategy_config always returns the update set {ORDER_BOOK,      *)
(* TICKER, PUBLIC_TRADE_HISTORY, FUNDS} and leaves the instance unchanged. *)
C3_ConfigConstant ==
    lastCall.op = "get_strategy_config" =>
        /\ lastRet.type = "StrategyConfig"
        /\ lastRet.required_data_updates =
               {ORDER_BOOK, TICKER, PUBLIC_TRADE_HISTORY, FUNDS}
        /\ Self = pre

C3_Witness ==
    /\ lastCall.op = "get_strategy_config"
    /\ strategy_state # EmptyDict
    /\ lifecycle = "Suspended"

(* C4: after suspend() in a Running state, s = save(), a restart with a    *)
(* fresh instance, restore(s) and unsuspend(), the instance has the fields *)
(* it had just before suspend() and responds to every call as it did.      *)
C4_SuspendCycle ==
    cyc.stage = 5 =>
        /\ Self = cyc.before
        /\ \A c \in Callbacks : Respond(Self, c) = Respond(cyc.before, c)

C4_Witness ==
    /\ cyc.stage = 5
    /\ lastCall.op = "unsuspend"
    /\ lifecycle = "Running"
    /\ cyc.before.strategy_state # EmptyDict

(* C5: each of the two error callbacks calls exit exactly once, with       *)
(* ERROR and the error text, whatever the id, and changes no field.        *)
C5_ErrorCallbacksExit ==
    lastCall.op \in {"on_place_order_error_string",
                     "on_cancel_order_error_string"} =>
        /\ hostCalls = <<exit(<<"ERROR", lastCall.error>>)>>
        /\ Self = pre

C5_Witness ==
    /\ lastCall.op = "on_cancel_order_error_string"
    /\ lastCall.order_id # pre.waiting_cancel_order_id
    /\ hostCalls # <<>>

(* C6: a placement success for an id other than the awaited one changes no *)
(* field, does not take the 'Had waiting order id' branch, calls no exit.  *)
C6_NoCrossTalk ==
    (/\ lastCall.op = "on_place_order_success"
     /\ lastCall.place_order_id # pre.waiting_order_id) =>
        /\ Self = pre
        /\ <<"Had waiting order id">> \notin Range(output)
        /\ ExitCalls = {}

C6_Witness ==
    /\ lastCall.op = "on_place_order_success"
    /\ lastCall.place_order_id # pre.waiting_order_id
    /\ <<"Did not have waiting order id">> \in Range(output)

(* C7: on_place_order_success takes the 'Had waiting order id' branch only *)
(* for an id that place_limit_order returned to this instance and that is  *)
(* not yet resolved.                                                       *)
C7_MatchOnlyInitiated ==
    [][(/\ lastCall'.op = "on_place_order_success"
        /\ <<"Had waiting order id">> \in Range(output'))
         => lastCall'.place_order_id \in pending]_vars

(* C8: on_cancel_order_success calls exit once with FINISHED_SUCCESSFULLY  *)
(* when the id equals waiting_cancel_order_id; otherwise it calls no exit  *)
(* and changes no field.                                                   *)
C8_CancelSuccess ==
    lastCall.op = "on_cancel_order_success" =>
        IF lastCall.order_id = pre.waiting_cancel_order_id
        THEN hostCalls = <<exit(<<"FINISHED_SUCCESSFULLY">>)>>
        ELSE hostCalls = <<>> /\ Self = pre

C8_Witness ==
    /\ lastCall.op = "on_cancel_order_success"
    /\ lastCall.order_id = pre.waiting_cancel_order_id
    /\ ExitCalls # {}

(* C9: start() raises AssertionError exactly when the rounded amount is    *)
(* below the minimum, above the maximum or the order is not valid; it      *)
(* never calls place_limit_order and changes no field.                     *)
C9_StartGuards ==
    lastCall.op = "start" =>
        LET t == lastCall.tcm
            fails == \/ t.get_min_buy_amount > t.round_amount
                     \/ t.get_max_buy_amount < t.round_amount
                     \/ ~t.is_order_valid
        IN  /\ lastRet = IF fails THEN Raised("AssertionError") ELSE None
            /\ hostCalls[2] = tcmCall("round_amount", <<amount, "ROUND">>,
                                      t.round_amount)
            /\ \A c \in Range(hostCalls) : c.op # "place_limit_order"
            /\ pending = {}
            /\ Self = pre

C9_Witness ==
    /\ lastCall.op = "start"
    /\ lastCall.tcm.get_min_buy_amount <= lastCall.tcm.round_amount
    /\ lastCall.tcm.get_max_buy_amount < lastCall.tcm.round_amount
    /\ lastCall.tcm.is_order_valid
    /\ lastRet = Raised("AssertionError")

(* C10: waiting_cancel_order_id is None in every state, so with integer    *)
(* ids exit is never called with FINISHED_SUCCESSFULLY: every exit is      *)
(* exit(ERROR, error) made by one of the two error callbacks.              *)
C10_NeverFinishes ==
    /\ waiting_cancel_order_id = None
    /\ \A c \in ExitCalls :
        /\ lastCall.op \in {"on_place_order_error_string",
                            "on_cancel_order_error_string"}
        /\ c.args = <<"ERROR", lastCall.error>>

C10_Witness ==
    /\ lastCall.op = "on_cancel_order_success"
    /\ lifecycle = "Running"
    /\ ExitCalls = {}

====
